---- MODULE Spec2Model ----
(***************************************************************************)
(* Model of music-drive.py: one run of main() walks the library, filters   *)
(* the walked paths, resolves each included path through the LibraryFiles  *)
(* table, copies it to the organized and shuffled trees and, optionally,   *)
(* deletes every other file of the two trees.  Between runs the library    *)
(* is edited by its owner; a run can be killed, and a copy can fail.       *)
(*                                                                         *)
(* A file name is a sequence of tokens (runs of characters); a path is a   *)
(* sequence of names, so that "lib/A/" is <<lib, A, <<>> >>.               *)
(***************************************************************************)
EXTENDS Integers, Sequences, FiniteSets, TLC

(* ---------------------------------------------------------------- bounds *)
MaxRuns == 2
MaxEdits == 1
MaxRows == 3

(* ------------------------------------------------------- names and paths *)
Empty == <<>>
nA == <<"A">>
nL == <<"L">>
nSm == <<"s", ".", "m">>
nTm == <<"t", ".", "m">>
nTab == <<"s", "\t", "shuffled">>
nHid == <<".", "h", ".", "m">>
nOld == <<"o", ".", "m">>

LIB == << <<"lib">> >>
ORG == << <<"drv">>, <<"organized">> >>
SHUF == << <<"drv">>, <<"shuffled">> >>

Front(s) == SubSeq(s, 1, Len(s) - 1)
Last(s) == s[Len(s)]

\* the path without the empty name a trailing slash leaves
Norm(p) == IF Len(p) > 0 /\ Last(p) = Empty THEN Front(p) ELSE p

\* os.path.join(dirname, name) for relative name
Join(d, r) == Norm(d) \o r

Prefixes(p) == {SubSeq(p, 1, k) : k \in 1..Len(p)}

IsPrefix(d, p) == Len(d) <= Len(p) /\ SubSeq(p, 1, Len(d)) = d

(* a view of a file system: the regular files and the directories *)
Exists(fs, p) ==
  IF Len(p) > 0 /\ Last(p) = Empty
    THEN Front(p) \in fs.dirs
    ELSE p \in fs.files \/ p \in fs.dirs

IsDir(fs, p) == Norm(p) \in fs.dirs

IsFile(fs, p) == p \in fs.files

(* ----------------------------------------------------------------- glob *)
Wild == {"*", "**"}

HasMagic(name) == \E i \in 1..Len(name) : name[i] \in Wild

PathHasMagic(p) == \E i \in 1..Len(p) : HasMagic(p[i])

IsRecursive(name) == name = <<"**">>

IsHidden(name) == Len(name) > 0 /\ name[1] = "."

RECURSIVE FnMatch(_, _)
FnMatch(name, pat) ==
  IF pat = <<>> THEN name = <<>>
  ELSE IF Head(pat) \in Wild
    THEN FnMatch(name, Tail(pat))
         \/ (name # <<>> /\ FnMatch(Tail(name), pat))
    ELSE name # <<>> /\ Head(name) = Head(pat)
         /\ FnMatch(Tail(name), Tail(pat))

ListDir(fs, d, dironly) ==
  IF ~IsDir(fs, d) THEN {}
  ELSE {p[Len(p)] : p \in {q \in (IF dironly THEN fs.dirs
                                  ELSE fs.files \cup fs.dirs) :
                              Len(q) = Len(Norm(d)) + 1 /\ IsPrefix(Norm(d), q)}}

\* relative paths of everything below d that no hidden name hides
RListDir(fs, d, dironly) ==
  IF ~IsDir(fs, d) THEN {}
  ELSE LET nd == Norm(d)
           below == {q \in (IF dironly THEN fs.dirs ELSE fs.files \cup fs.dirs) :
                       Len(q) > Len(nd) /\ IsPrefix(nd, q)}
       IN {SubSeq(q, Len(nd) + 1, Len(q)) :
             q \in {b \in below :
                      \A i \in (Len(nd) + 1)..Len(b) : ~IsHidden(b[i])}}

Glob0(fs, d, base) ==
  IF base = Empty
    THEN IF IsDir(fs, d) THEN {<<base>>} ELSE {}
    ELSE IF Exists(fs, Join(d, <<base>>)) THEN {<<base>>} ELSE {}

Glob1(fs, d, pat, dironly) ==
  {<<n>> : n \in {m \in ListDir(fs, d, dironly) :
                   (IsHidden(pat) \/ ~IsHidden(m)) /\ FnMatch(m, pat)}}

\* "**": the directory itself as "d/", whether or not d exists, then all
\* that is below it
Glob2(fs, d, dironly) == {<<Empty>>} \cup RListDir(fs, d, dironly)

GlobInDir(fs, d, base, dironly) ==
  IF HasMagic(base)
    THEN IF IsRecursive(base) THEN Glob2(fs, d, dironly)
         ELSE Glob1(fs, d, base, dironly)
    ELSE Glob0(fs, d, base)

RECURSIVE IGlob(_, _, _)
IGlob(fs, pat, dironly) ==
  LET base == Last(pat)
      dir == Front(pat)
  IN IF ~PathHasMagic(pat)
       THEN IF base # Empty
              THEN IF Exists(fs, pat) THEN {pat} ELSE {}
              ELSE IF IsDir(fs, dir) THEN {pat} ELSE {}
       ELSE LET ds == IF PathHasMagic(dir) THEN IGlob(fs, dir, TRUE) ELSE {dir}
            IN UNION {{IF Norm(d) = <<>> THEN r ELSE Join(d, r) :
                         r \in GlobInDir(fs, d, base, dironly)} : d \in ds}

(* ------------------------------------------------------ file contents *)
NoFile == "none"
Contents == {"c1", "c2", "c3"}

\* st_size of a file holding the content: c1 and c2 have the same length
Size(c) == CASE c = "c1" -> 1 [] c = "c2" -> 1 [] c = "c3" -> 2

HexLen == 40
PrefixLen == 8

\* sha1(...).hexdigest(): 40 hex digits, different for different contents
HexDigest(c) ==
  CASE c = "c1" -> <<"d", "e", "a", "d", "b", "e", "e", "f">> \o [i \in 1..(HexLen - 8) |-> "0"]
    [] c = "c2" -> <<"c", "a", "f", "e", "f", "0", "0", "d">> \o [i \in 1..(HexLen - 8) |-> "1"]
    [] c = "c3" -> <<"0", "1", "2", "3", "4", "5", "6", "7">> \o [i \in 1..(HexLen - 8) |-> "2"]

(* ------------------------------------------------------ string helpers *)
White == {" ", "\t", "\n"}

RECURSIVE LStrip(_)
LStrip(s) == IF s # <<>> /\ Head(s) \in White THEN LStrip(Tail(s)) ELSE s

RECURSIVE RStrip(_)
RStrip(s) == IF s # <<>> /\ Last(s) \in White THEN RStrip(Front(s)) ELSE s

\* str.strip()
Strip(s) == RStrip(LStrip(s))

\* the names of a "/"-separated string
RECURSIVE SplitSlash(_)
SplitSlash(s) ==
  IF \A i \in 1..Len(s) : s[i] # "/" THEN <<s>>
  ELSE LET k == CHOOSE i \in 1..Len(s) :
                  s[i] = "/" /\ \A j \in 1..(i - 1) : s[j] # "/"
       IN <<SubSeq(s, 1, k - 1)>> \o SplitSlash(SubSeq(s, k + 1, Len(s)))

\* os.path.join(root, s): an absolute s replaces root
PathJoin(root, s) ==
  IF s # <<>> /\ Head(s) = "/" THEN SplitSlash(s) ELSE Norm(root) \o SplitSlash(s)

\* os.path.splitext of a file name: the last dot that is not a leading dot
SplitExt(name) ==
  LET dots == {i \in 1..Len(name) : name[i] = "."}
  IN IF dots = {} THEN <<name, <<>>>>
     ELSE LET d == CHOOSE i \in dots : \A j \in dots : j <= i
          IN IF \E j \in 1..(d - 1) : name[j] # "."
               THEN <<SubSeq(name, 1, d - 1), SubSeq(name, d, Len(name))>>
               ELSE <<name, <<>>>>

BaseName(p) == Last(p)

\* os.path.commonpath of two paths
CommonPath(a, b) ==
  LET na == Norm(a)
      nb == Norm(b)
      ks == {k \in 0..Len(na) : k <= Len(nb) /\ SubSeq(na, 1, k) = SubSeq(nb, 1, k)}
  IN SubSeq(na, 1, CHOOSE k \in ks : \A j \in ks : j <= k)

(* -------------------------------------------------------------- Filter *)
\* Filter.__init__: the whole stripped line, less a leading "!", is the glob
Filter(fs, line, root) ==
  LET is_negative == line # <<>> /\ Head(line) = "!"
      s == IF is_negative THEN Tail(line) ELSE line
      pat == PathJoin(root, s)
  IN [is_negative |-> is_negative, glob |-> pat, items |-> IGlob(fs, pat, FALSE)]

\* the three results of should_include
PyTrue == "True"
PyFalse == "False"
PyNone == "None"

should_include(filt, fname) ==
  IF fname \in filt.items
    THEN IF ~filt.is_negative THEN PyTrue ELSE PyFalse
    ELSE PyNone

\* the loop with the last matching filter deciding
FilterLoop_LastWins(fls, i, fname) ==
  LET later == {j \in i..Len(fls) : fname \in fls[j].items}
  IN later # {}
     /\ ~fls[CHOOSE j \in later : \A k \in later : k <= j].is_negative

\* the loop without the "break" of a negated match
RECURSIVE FilterLoop_NoBreak(_, _, _)
FilterLoop_NoBreak(fls, i, fname) ==
  IF i > Len(fls) THEN FALSE
  ELSE should_include(fls[i], fname) = PyTrue
       \/ FilterLoop_NoBreak(fls, i + 1, fname)

\* the inner loop of gen_input_files, from filter i on: TRUE iff fname is yielded
RECURSIVE FilterLoop(_, _, _)
FilterLoop(fls, i, fname) ==
  IF i > Len(fls) THEN FALSE
  ELSE LET ret == should_include(fls[i], fname)
       IN IF ret = PyTrue THEN TRUE
          ELSE IF ret = PyFalse THEN FALSE
          ELSE FilterLoop(fls, i + 1, fname)

Yields(fls, fname) == FilterLoop(fls, 1, fname)

\* the loading loop with what precedes the first tab of a line as its pattern
LoadFilters_FirstField(fs, lines, root) ==
  [i \in 1..Len(lines) |->
     LET st == Strip(lines[i])
         tabs == {k \in 1..Len(st) : st[k] = "\t"}
     IN Filter(fs,
               IF tabs = {} THEN st
               ELSE SubSeq(st, 1, (CHOOSE k \in tabs : \A j \in tabs : k <= j) - 1),
               root)]

\* main: one Filter for every line of the include file, in file order
LoadFilters(fs, lines, root) ==
  [i \in 1..Len(lines) |-> Filter(fs, Strip(lines[i]), root)]

(* ------------------------------------------------------- LibraryFiles *)
find_library_files_by_size(db, size) ==
  SelectSeq(db, LAMBDA row : row.size = size)

RemoveAt(db, i) == SubSeq(db, 1, i - 1) \o SubSeq(db, i + 1, Len(db))

\* scan the rows with the hash in rowid order from i on, deleting the rows
\* whose path is gone, up to the first row whose path exists
RECURSIVE HashScan(_, _, _, _)
HashScan(fs, db, sha1, i) ==
  IF i > Len(db) THEN [found |-> FALSE, db |-> db]
  ELSE IF db[i].sha1 # sha1 THEN HashScan(fs, db, sha1, i + 1)
  ELSE IF Exists(fs, db[i].path) THEN [found |-> TRUE, row |-> db[i], db |-> db]
  ELSE HashScan(fs, RemoveAt(db, i), sha1, i)

\* the lookup that deletes every row with the hash whose path is gone
find_library_file_by_hash_Eager(fs, db, sha1) ==
  LET kept == SelectSeq(db, LAMBDA r : r.sha1 # sha1 \/ Exists(fs, r.path))
      hits == SelectSeq(kept, LAMBDA r : r.sha1 = sha1)
  IN IF hits = <<>> THEN [found |-> FALSE, db |-> kept]
     ELSE [found |-> TRUE, row |-> hits[1], db |-> kept]

find_library_file_by_hash(fs, db, sha1) == HashScan(fs, db, sha1, 1)

(* ------------------------------------------------- destination paths *)
\* main: input_fname[len(commonpath([library, input_fname])):], less a leading "/"
partial_fname(library, input_fname) ==
  SubSeq(input_fname, Len(CommonPath(library, input_fname)) + 1, Len(input_fname))

organized_out(library, organized, input_fname) ==
  LET rel == partial_fname(library, input_fname)
  IN IF rel = <<>> THEN Norm(organized) \o <<Empty>> ELSE Norm(organized) \o rel

\* the name with one hex digit less
shuffled_name_Short(base, sha1) ==
  LET split == SplitExt(base)
  IN split[1] \o <<" ", "-", " ">> \o SubSeq(sha1, 1, PrefixLen - 1) \o split[2]

\* f'{split[0]} - {sha1[:8]}{split[1]}'
shuffled_name(base, sha1) ==
  LET split == SplitExt(base)
  IN split[1] \o <<" ", "-", " ">> \o SubSeq(sha1, 1, PrefixLen) \o split[2]

shuffled_out(shuffled, row) ==
  Norm(shuffled) \o <<shuffled_name(BaseName(row.path), row.sha1)>>

\* gen_input_rows yielding the walked path itself as the source
yield_row_Own(row, fname) == [row EXCEPT !.path = fname]

\* the row gen_input_rows yields for the candidate fname
yield_row(row, fname) == row

(* ----------------------------------------------------- walk order *)
\* glob walks a tree depth first: the root, then each entry before what is
\* below it, the entries of one directory in any order
WalkNext(todoS, lastv, root) ==
  LET rootEntry == Norm(root) \o <<Empty>>
      nl == Norm(lastv)
      stack == {SubSeq(nl, 1, k) : k \in Len(Norm(root))..Len(nl)}
      kids(d) == {y \in todoS : Front(y) = d}
      live == {d \in stack : kids(d) # {}}
  IN IF rootEntry \in todoS THEN {rootEntry}
     ELSE IF live = {} THEN {}
     ELSE kids(CHOOSE d \in live : \A e \in live : Len(e) <= Len(d))

(* ------------------------------------------------------------ state *)
VARIABLES
  mounted,         \* the library root is a directory (the mount is there)
  lib,             \* content of every library path, NoFile when absent
  rulefile,        \* the lines of the include file
  db,              \* the rows of LibraryFiles in rowid order
  dst,             \* content of every regular file under the two output trees
  dstDirs,         \* the directories of the two output trees
  pc,              \* "idle" between runs, "scan" in the copy loop, "prune"
  status,          \* exit status of the last run, Running until it ends
  delete_excluded_files,
  filters,         \* the Filter objects of the run
  todo,            \* walked library paths not yet reached
  ptodo,           \* walked paths of the two output trees not yet reached
  last,            \* the walked path reached last
  included_files,  \* the destination paths of the run
  yielded,         \* the paths gen_input_files yielded in the run
  resolved,        \* the row yielded for each path whose turn of the copy
                   \* loop is over
  destsOf,         \* the destination paths recorded for each such path
  copies,          \* <<source, destination>> of every copy of the run
  deleted,         \* the files the run unlinked
  prev,            \* included_files, resolved and status of the run before
  repeat,          \* the run repeats a completed run with nothing changed
  changed,         \* the library was edited since the last run
  runs,
  edits,           \* what came from outside so far: edits of the library,
                   \* kills of the process, I/O errors of the drive
  start,           \* the table and the trees when the run began, kept over
                   \* the runs that repeat a run that was killed
  call             \* the last call of find_library_file_by_hash on its own

vars == <<mounted, lib, rulefile, db, dst, dstDirs, pc, status,
          delete_excluded_files, filters, todo, ptodo, last, included_files,
          yielded, resolved, destsOf, copies, deleted, prev, repeat,
          changed, runs, edits, start, call>>

\* the value of status while no run has ended
Running == -1

LibPaths == {LIB \o <<nA, nSm>>, LIB \o <<nA, nTm>>, LIB \o <<nA, nL, nSm>>,
             LIB \o <<nA, nTab>>}

ProperPrefixes(p) == {SubSeq(p, 1, k) : k \in 1..(Len(p) - 1)}

\* the library as the file system shows it
LibFS ==
  IF mounted
    THEN LET fl == {p \in LibPaths : lib[p] # NoFile}
         IN [files |-> fl, dirs |-> {LIB} \cup UNION {ProperPrefixes(p) : p \in fl}]
    ELSE [files |-> {}, dirs |-> {}]

DstFS == [files |-> DOMAIN dst, dirs |-> dstDirs]

RuleFiles ==
  { << <<"A", "/", "*", "\n">> >>,
    << <<"A", "/", "s", "*", "\n">>,
       <<"!", "A", "/", "*", ".", "m", "\n">>,
       <<"A", "/", "L", "/", "*", "\n">> >>,
    << <<"!", "A", "/", "t", ".", "m", "\n">>,
       <<"A", "/", "**", "\n">> >>,
    << <<"A", "/", "*", "\t", "shuffled", "\n">> >>,
    << <<"**", "\n">> >>,
    << <<"A", "/", "s", "\t", "*", "\n">>,
       <<"A", "/", "*", "\t", "shuffled", "\t", "both", "\n">> >>,
    << <<"#", " ", "c", "\n">>,
       <<"A", "/", "*", "\n">>,
       <<"\n">> >> }

InitLib ==
  [p \in LibPaths |->
     IF p \in {LIB \o <<nA, nSm>>, LIB \o <<nA, nTm>>} THEN "c1" ELSE NoFile]

\* files left on the drive by hand: one below a directory, one hidden
InitDst ==
  (ORG \o <<nA, nOld>> :> "c3") @@ (ORG \o <<nHid>> :> "c3")
  @@ (SHUF \o <<nOld>> :> "c3")

InitDirs == Prefixes(ORG) \cup Prefixes(SHUF) \cup {ORG \o <<nA>>}

Init ==
  /\ mounted \in BOOLEAN
  /\ lib = InitLib
  /\ rulefile \in RuleFiles
  /\ db = <<>>
  /\ dst = InitDst
  /\ dstDirs = InitDirs
  /\ pc = "idle"
  /\ status = Running
  /\ delete_excluded_files = FALSE
  /\ filters = <<>>
  /\ todo = {}
  /\ ptodo = [org |-> {}, shuf |-> {}]
  /\ last = <<>>
  /\ included_files = {}
  /\ yielded = {}
  /\ resolved = <<>>
  /\ destsOf = <<>>
  /\ copies = {}
  /\ deleted = {}
  /\ prev = [dest |-> {}, resolved |-> <<>>, status |-> Running]
  /\ repeat = FALSE
  /\ changed = FALSE
  /\ runs = 0
  /\ edits = 0
  /\ start = [db |-> <<>>, dst |-> InitDst, dirs |-> InitDirs,
              del |-> FALSE, rerun |-> FALSE]
  /\ call = <<>>

(* ------------------------------------------------------------- main *)
\* the run before was killed: it began and left no exit status
Killed == pc = "idle" /\ runs > 0 /\ status = Running

\* main up to the copy loop: the output roots, the filters, the walk
StartRun(d) ==
  /\ pc = "idle"
  /\ runs < MaxRuns
  /\ runs' = runs + 1
  /\ delete_excluded_files' = d
  /\ dstDirs' = dstDirs \cup Prefixes(ORG) \cup Prefixes(SHUF)
  /\ filters' = LoadFilters(LibFS, rulefile, LIB)
  /\ todo' = IGlob(LibFS, PathJoin(LIB, <<"**">>), FALSE)
  /\ ptodo' = [org |-> {}, shuf |-> {}]
  /\ last' = <<>>
  /\ included_files' = {}
  /\ yielded' = {}
  /\ resolved' = <<>>
  /\ destsOf' = <<>>
  /\ copies' = {}
  /\ deleted' = {}
  /\ prev' = [dest |-> included_files, resolved |-> resolved, status |-> status]
  /\ repeat' = (status = 0 /\ ~changed)
  /\ changed' = FALSE
  /\ status' = Running
  /\ pc' = "scan"
  /\ start' = IF Killed /\ ~changed /\ d = start.del
                THEN [start EXCEPT !.rerun = TRUE]
                ELSE [db |-> db, dst |-> dst, dirs |-> dstDirs,
                      del |-> d, rerun |-> FALSE]
  /\ UNCHANGED <<call, mounted, lib, rulefile, db, dst, edits>>

\* the insert made whenever no row has the path
Inserted_ByPath(dbv, fname) ==
  LET c == lib[fname]
      row == [path |-> fname, sha1 |-> HexDigest(c), size |-> Size(c)]
  IN IF \A i \in 1..Len(dbv) : dbv[i].path # fname THEN Append(dbv, row) ELSE dbv

\* gen_input_rows, lines 201 to 208: the table after the insert, if any
Inserted(dbv, fname) ==
  LET c == lib[fname]
      same_size_library_files == find_library_files_by_size(dbv, Size(c))
      row == [path |-> fname, sha1 |-> HexDigest(c), size |-> Size(c)]
  IN IF same_size_library_files = <<>> THEN Append(dbv, row) ELSE dbv

\* gen_input_rows for one file on the table dbv: the insert and the lookup
LookupIn(dbv, fname) ==
  find_library_file_by_hash(LibFS, Inserted(dbv, fname), HexDigest(lib[fname]))

\* gen_input_rows for one file: the insert and the lookup by hash
Lookup(fname) == LookupIn(db, fname)

\* copy_file: the tree after the call
CopyDirs(dirs, out_fname) == dirs \cup Prefixes(Front(out_fname))

\* copy_file without the test of line 219
NeedsCopy_Always(files, dirs, out_fname) == TRUE

NeedsCopy(files, dirs, out_fname) ==
  ~(out_fname \in DOMAIN files \/ out_fname \in dirs)

\* copy_file with the test of line 219 inverted
CopyFiles_Inverted(files, dirs, input_fname, out_fname) ==
  IF NeedsCopy(files, dirs, out_fname)
    THEN files
    ELSE (out_fname :> lib[input_fname]) @@ files

CopyFiles(files, dirs, input_fname, out_fname) ==
  IF NeedsCopy(files, dirs, out_fname)
    THEN (out_fname :> lib[input_fname]) @@ files
    ELSE files

\* a walked path no filter includes
Skip(x) ==
  /\ pc = "scan"
  /\ x \in WalkNext(todo, last, LIB)
  /\ ~Yields(filters, x)
  /\ todo' = todo \ {x}
  /\ last' = x
  /\ UNCHANGED <<start, call, mounted, lib, rulefile, db, dst, dstDirs, pc, status,
                 delete_excluded_files, filters, ptodo, included_files,
                 yielded, resolved, destsOf, copies, deleted, prev,
                 repeat, changed, runs, edits>>

\* one turn of the copy loop of main for an included file
Process(x) ==
  /\ pc = "scan"
  /\ x \in WalkNext(todo, last, LIB)
  /\ Yields(filters, x)
  /\ IsFile(LibFS, x)
  /\ Lookup(x).found
  /\ LET r == Lookup(x)
         input_row == yield_row(r.row, x)
         input_fname == input_row.path
         org == organized_out(LIB, ORG, input_fname)
         shuf == shuffled_out(SHUF, input_row)
         dirs1 == CopyDirs(dstDirs, org)
         files1 == CopyFiles(dst, dirs1, input_fname, org)
         dirs2 == CopyDirs(dirs1, shuf)
         files2 == CopyFiles(files1, dirs2, input_fname, shuf)
     IN /\ db' = r.db
        /\ dst' = files2
        /\ dstDirs' = dirs2
        /\ included_files' = included_files \cup {org, shuf}
        /\ copies' = copies
             \cup (IF NeedsCopy(dst, dirs1, org) THEN {<<input_fname, org>>} ELSE {})
             \cup (IF NeedsCopy(files1, dirs2, shuf) THEN {<<input_fname, shuf>>} ELSE {})
        /\ resolved' = (x :> input_row) @@ resolved
        /\ destsOf' = (x :> {org, shuf}) @@ destsOf
  /\ yielded' = yielded \cup {x}
  /\ todo' = todo \ {x}
  /\ last' = x
  /\ UNCHANGED <<start, call, mounted, lib, rulefile, pc, status, delete_excluded_files,
                 filters, ptodo, deleted, prev, repeat, changed, runs,
                 edits>>

Crash ==
  /\ pc' = "idle"
  /\ status' = 1

\* os.stat raises for an included path that does not exist
StatFails(x) ==
  /\ pc = "scan"
  /\ x \in WalkNext(todo, last, LIB)
  /\ Yields(filters, x)
  /\ ~Exists(LibFS, x)
  /\ Crash
  /\ yielded' = yielded \cup {x}
  /\ UNCHANGED <<start, call, mounted, lib, rulefile, db, dst, dstDirs,
                 delete_excluded_files, filters, todo, ptodo, last, included_files,
                 resolved, destsOf, copies, deleted, prev, repeat,
                 changed, runs, edits>>

\* hash_file raises for an included path that is a directory
HashFails(x) ==
  /\ pc = "scan"
  /\ x \in WalkNext(todo, last, LIB)
  /\ Yields(filters, x)
  /\ IsDir(LibFS, x)
  /\ Crash
  /\ yielded' = yielded \cup {x}
  /\ UNCHANGED <<start, call, mounted, lib, rulefile, db, dst, dstDirs,
                 delete_excluded_files, filters, todo, ptodo, last, included_files,
                 resolved, destsOf, copies, deleted, prev, repeat,
                 changed, runs, edits>>

\* "assert row" fails: no row with the hash has a path that exists
AssertFails(x) ==
  /\ pc = "scan"
  /\ x \in WalkNext(todo, last, LIB)
  /\ Yields(filters, x)
  /\ IsFile(LibFS, x)
  /\ ~Lookup(x).found
  /\ db' = Lookup(x).db
  /\ Crash
  /\ yielded' = yielded \cup {x}
  /\ UNCHANGED <<start, call, mounted, lib, rulefile, dst, dstDirs,
                 delete_excluded_files, filters, todo, ptodo, last, included_files,
                 resolved, destsOf, copies, deleted, prev, repeat,
                 changed, runs, edits>>

\* shutil.copy2 raises in one of the two copies of an included file: nothing
\* catches it
CopyFails(x) ==
  /\ pc = "scan"
  /\ x \in WalkNext(todo, last, LIB)
  /\ Yields(filters, x)
  /\ IsFile(LibFS, x)
  /\ Lookup(x).found
  /\ LET r == Lookup(x)
         input_row == yield_row(r.row, x)
         input_fname == input_row.path
         org == organized_out(LIB, ORG, input_fname)
         shuf == shuffled_out(SHUF, input_row)
         dirs1 == CopyDirs(dstDirs, org)
         files1 == CopyFiles(dst, dirs1, input_fname, org)
         dirs2 == CopyDirs(dirs1, shuf)
     IN /\ db' = r.db
        /\ \/ /\ NeedsCopy(dst, dirs1, org)
              /\ dstDirs' = dirs1
              /\ UNCHANGED <<dst, copies, included_files>>
           \/ /\ NeedsCopy(files1, dirs2, shuf)
              /\ dstDirs' = dirs2
              /\ dst' = files1
              /\ copies' = copies
                   \cup (IF NeedsCopy(dst, dirs1, org) THEN {<<input_fname, org>>} ELSE {})
              /\ included_files' = included_files \cup {org}
  /\ Crash
  /\ yielded' = yielded \cup {x}
  /\ edits < MaxEdits
  /\ edits' = edits + 1
  /\ UNCHANGED <<start, call, mounted, lib, rulefile, delete_excluded_files,
                 filters, todo, ptodo, last, resolved, destsOf, deleted, prev,
                 repeat, changed, runs>>

\* the process is gone, and what it held in memory with it
Gone ==
  /\ pc' = "idle"
  /\ filters' = <<>>
  /\ todo' = {}
  /\ ptodo' = [org |-> {}, shuf |-> {}]
  /\ last' = <<>>
  /\ yielded' = {}
  /\ resolved' = <<>>
  /\ destsOf' = <<>>
  /\ edits < MaxEdits
  /\ edits' = edits + 1
  /\ UNCHANGED <<start, call, mounted, lib, rulefile, status,
                 delete_excluded_files, included_files, deleted, prev, repeat,
                 changed, runs>>

\* the process is killed between two turns of a loop
Kill ==
  /\ pc \in {"scan", "prune"}
  /\ Gone
  /\ UNCHANGED <<db, dst, dstDirs, copies>>

\* shutil.copy2 when the process ends during it: the copy is one step, the
\* file is not there or it is whole
InterruptedCopy(files, input_fname, out_fname) ==
  {files, (out_fname :> lib[input_fname]) @@ files}

\* the table and the trees at every point within the turn of the copy loop
\* for the included file x
Partial(x) ==
  LET r == Lookup(x)
      input_row == yield_row(r.row, x)
      input_fname == input_row.path
      org == organized_out(LIB, ORG, input_fname)
      shuf == shuffled_out(SHUF, input_row)
      dirs1 == CopyDirs(dstDirs, org)
      files1 == CopyFiles(dst, dirs1, input_fname, org)
      dirs2 == CopyDirs(dirs1, shuf)
  IN {[db |-> Inserted(db, x), dst |-> dst, dirs |-> dstDirs],
      [db |-> r.db, dst |-> dst, dirs |-> dstDirs]}
     \cup (IF ~r.found THEN {}
           ELSE {[db |-> r.db, dst |-> dst, dirs |-> dirs1]}
                \cup {[db |-> r.db, dst |-> f, dirs |-> dirs1] :
                        f \in (IF NeedsCopy(dst, dirs1, org)
                                 THEN InterruptedCopy(dst, input_fname, org)
                                 ELSE {dst})}
                \cup {[db |-> r.db, dst |-> f, dirs |-> dirs2] :
                        f \in (IF NeedsCopy(files1, dirs2, shuf)
                                 THEN InterruptedCopy(files1, input_fname, shuf)
                                 ELSE {files1})})

\* the process is killed within the turn of the copy loop for x
KillIn(x) ==
  /\ pc = "scan"
  /\ x \in WalkNext(todo, last, LIB)
  /\ Yields(filters, x)
  /\ IsFile(LibFS, x)
  /\ \E p \in Partial(x) :
       /\ db' = p.db
       /\ dst' = p.dst
       /\ dstDirs' = p.dirs
       /\ copies' = copies
            \cup {<<yield_row(Lookup(x).row, x).path, o>> :
                    o \in DOMAIN p.dst \ DOMAIN dst}
  /\ Gone

\* the delete loop entered without waiting for the end of the copy loop
LoopDone_Early(rest) == TRUE

\* the generators are exhausted: the copy loop of main is over
LoopDone(rest) == rest = {}

\* the copy loop is over and --delete-excluded-files is set: walk the trees
BeginPrune ==
  /\ pc = "scan"
  /\ LoopDone(todo)
  /\ delete_excluded_files
  /\ pc' = "prune"
  /\ ptodo' = [org |-> IGlob(DstFS, PathJoin(ORG, <<"**">>), FALSE),
               shuf |-> IGlob(DstFS, PathJoin(SHUF, <<"**">>), FALSE)]
  /\ last' = <<>>
  /\ UNCHANGED <<start, call, mounted, lib, rulefile, db, dst, dstDirs, status,
                 delete_excluded_files, filters, todo, included_files, yielded,
                 resolved, destsOf, copies, deleted, prev, repeat,
                 changed, runs, edits>>

\* chain(...): the organized tree first, then the shuffled tree
PruneNext ==
  IF ptodo.org # {} THEN WalkNext(ptodo.org, last, ORG)
  ELSE WalkNext(ptodo.shuf, last, SHUF)

PruneRest(fname) ==
  [org |-> ptodo.org \ {fname}, shuf |-> ptodo.shuf \ {fname}]

\* the two "continue" of the delete loop
Keeps(fname) == ~IsFile(DstFS, fname) \/ fname \in included_files

PruneKeep(fname) ==
  /\ pc = "prune"
  /\ fname \in PruneNext
  /\ Keeps(fname)
  /\ ptodo' = PruneRest(fname)
  /\ last' = fname
  /\ UNCHANGED <<start, call, mounted, lib, rulefile, db, dst, dstDirs, pc, status,
                 delete_excluded_files, filters, todo, included_files,
                 yielded, resolved, destsOf, copies, deleted, prev,
                 repeat, changed, runs, edits>>

PruneDelete(fname) ==
  /\ pc = "prune"
  /\ fname \in PruneNext
  /\ ~Keeps(fname)
  /\ dst' = [f \in DOMAIN dst \ {fname} |-> dst[f]]
  /\ deleted' = deleted \cup {fname}
  /\ ptodo' = PruneRest(fname)
  /\ last' = fname
  /\ UNCHANGED <<start, call, mounted, lib, rulefile, db, dstDirs, pc, status,
                 delete_excluded_files, filters, todo, included_files,
                 yielded, resolved, destsOf, copies, prev, repeat,
                 changed, runs, edits>>

\* db.commit(); db.close(); return 0
Return ==
  /\ \/ pc = "scan" /\ LoopDone(todo) /\ ~delete_excluded_files
     \/ pc = "prune" /\ ptodo.org = {} /\ ptodo.shuf = {}
  /\ pc' = "idle"
  /\ status' = 0
  /\ UNCHANGED <<start, call, mounted, lib, rulefile, db, dst, dstDirs,
                 delete_excluded_files, filters, todo, ptodo, last, included_files,
                 yielded, resolved, destsOf, copies, deleted, prev,
                 repeat, changed, runs, edits>>

(* ------------------------------------------- the owner of the library *)
Edit ==
  /\ pc = "idle"
  /\ edits < MaxEdits
  /\ edits' = edits + 1
  /\ changed' = TRUE
  /\ UNCHANGED <<start, call, rulefile, db, dst, dstDirs, pc, status,
                 delete_excluded_files, filters, todo, ptodo, last, included_files,
                 yielded, resolved, destsOf, copies, deleted, prev,
                 repeat, runs>>

WriteFile(p, c) ==
  /\ Edit
  /\ mounted
  /\ lib[p] # c
  /\ lib' = [lib EXCEPT ![p] = c]
  /\ UNCHANGED mounted

RemoveFile(p) ==
  /\ Edit
  /\ mounted
  /\ lib[p] # NoFile
  /\ lib' = [lib EXCEPT ![p] = NoFile]
  /\ UNCHANGED mounted

Unmount ==
  /\ Edit
  /\ mounted
  /\ mounted' = FALSE
  /\ UNCHANGED lib

Mount ==
  /\ Edit
  /\ ~mounted
  /\ mounted' = TRUE
  /\ UNCHANGED lib

\* the files the owner writes: other content of the same size or of another
\* size in place of a file, a file below a new directory, a file with a tab
\* in its name
Writes ==
  {<<LIB \o <<nA, nSm>>, "c2">>, <<LIB \o <<nA, nSm>>, "c3">>,
   <<LIB \o <<nA, nTm>>, "c2">>,
   <<LIB \o <<nA, nL, nSm>>, "c1">>, <<LIB \o <<nA, nTab>>, "c1">>}

Next ==
  \/ \E d \in BOOLEAN : StartRun(d)
  \/ \E x \in todo : Skip(x)
  \/ \E x \in todo : Process(x)
  \/ \E x \in todo : StatFails(x)
  \/ \E x \in todo : HashFails(x)
  \/ \E x \in todo : AssertFails(x)
  \/ \E x \in todo : CopyFails(x)
  \/ Kill
  \/ \E x \in todo : KillIn(x)
  \/ BeginPrune
  \/ \E f \in ptodo.org \cup ptodo.shuf : PruneKeep(f)
  \/ \E f \in ptodo.org \cup ptodo.shuf : PruneDelete(f)
  \/ Return
  \/ \E w \in Writes : WriteFile(w[1], w[2])
  \/ \E p \in LibPaths : RemoveFile(p)
  \/ Unmount
  \/ Mount

Spec == Init /\ [][Next]_vars

(* ------------------------------------ a drive that was filled before *)
\* the row of lib/A/s.m with the content c1
RowSm ==
  [path |-> LIB \o <<nA, nSm>>, sha1 |-> HexDigest("c1"), size |-> Size("c1")]

\* the table, the trees and the library after a run under the rule "A/*"
\* that took lib/A/s.m as the source of the two files, and the removal of
\* lib/A/s.m that followed it
InitRecover ==
  /\ mounted \in BOOLEAN
  /\ lib = [InitLib EXCEPT ![LIB \o <<nA, nSm>>] = NoFile]
  /\ rulefile \in RuleFiles
  /\ db = <<RowSm>>
  /\ dst = (organized_out(LIB, ORG, RowSm.path) :> "c1")
             @@ (shuffled_out(SHUF, RowSm) :> "c1") @@ InitDst
  /\ dstDirs = InitDirs
  /\ pc = "idle"
  /\ status = Running
  /\ delete_excluded_files = FALSE
  /\ filters = <<>>
  /\ todo = {}
  /\ ptodo = [org |-> {}, shuf |-> {}]
  /\ last = <<>>
  /\ included_files = {}
  /\ yielded = {}
  /\ resolved = <<>>
  /\ destsOf = <<>>
  /\ copies = {}
  /\ deleted = {}
  /\ prev = [dest |-> {}, resolved |-> <<>>, status |-> Running]
  /\ repeat = FALSE
  /\ changed = FALSE
  /\ runs = 0
  /\ edits = 0
  /\ start = [db |-> <<>>, dst |-> InitDst, dirs |-> InitDirs,
              del |-> FALSE, rerun |-> FALSE]
  /\ call = <<>>

SpecRecover == InitRecover /\ [][Next]_vars

(* ------------------------------ find_library_file_by_hash on any table *)
\* the rows a LibraryFiles table can hold for two paths and two hashes
ScanRows ==
  [path : {LIB \o <<nA, nSm>>, LIB \o <<nA, nTm>>},
   sha1 : {HexDigest("c1"), HexDigest("c2")},
   size : {Size("c1")}]

Tables == UNION {[1..n -> ScanRows] : n \in 0..MaxRows}

\* the libraries in which each of the two paths is there or not
ScanLibs ==
  {l \in [LibPaths -> {NoFile, "c1"}] :
     \A p \in LibPaths : l[p] # NoFile => p \in {r.path : r \in ScanRows}}

InitScan ==
  /\ mounted = TRUE
  /\ lib \in ScanLibs
  /\ rulefile = << <<"A", "/", "*", "\n">> >>
  /\ db \in Tables
  /\ dst = InitDst
  /\ dstDirs = InitDirs
  /\ pc = "idle"
  /\ status = Running
  /\ delete_excluded_files = FALSE
  /\ filters = <<>>
  /\ todo = {}
  /\ ptodo = [org |-> {}, shuf |-> {}]
  /\ last = <<>>
  /\ included_files = {}
  /\ yielded = {}
  /\ resolved = <<>>
  /\ destsOf = <<>>
  /\ copies = {}
  /\ deleted = {}
  /\ prev = [dest |-> {}, resolved |-> <<>>, status |-> Running]
  /\ repeat = FALSE
  /\ changed = FALSE
  /\ runs = 0
  /\ edits = 0
  /\ start = [db |-> <<>>, dst |-> InitDst, dirs |-> InitDirs,
              del |-> FALSE, rerun |-> FALSE]
  /\ call = <<>>

\* one call of find_library_file_by_hash(db, sha1)
Find(sha1) ==
  /\ call = <<>>
  /\ LET ret == find_library_file_by_hash(LibFS, db, sha1)
     IN /\ call' = <<[db |-> db, sha1 |-> sha1, ret |-> ret]>>
        /\ db' = ret.db
  /\ UNCHANGED <<mounted, lib, rulefile, dst, dstDirs, pc, status,
                 delete_excluded_files, filters, todo, ptodo, last,
                 included_files, yielded, resolved, destsOf, copies, deleted,
                 prev, repeat, changed, runs, edits, start>>

NextScan == \E sha1 \in {r.sha1 : r \in ScanRows} : Find(sha1)

SpecScan == InitScan /\ [][NextScan]_vars

(* ------------------------------------------- a run from start to end *)
\* one turn of the copy loop of main for the included file x, as a function
\* of the table, the trees and the destination set
Turn(st, x) ==
  LET r == LookupIn(st.db, x)
      input_row == yield_row(r.row, x)
      input_fname == input_row.path
      org == organized_out(LIB, ORG, input_fname)
      shuf == shuffled_out(SHUF, input_row)
      dirs1 == CopyDirs(st.dirs, org)
      files1 == CopyFiles(st.dst, dirs1, input_fname, org)
      dirs2 == CopyDirs(dirs1, shuf)
      files2 == CopyFiles(files1, dirs2, input_fname, shuf)
  IN [db |-> r.db, dst |-> files2, dirs |-> dirs2,
      inc |-> st.inc \cup {org, shuf}]

\* the copy loop of main from st on, over every order of the walk: the
\* results of the loops that reach their end
RECURSIVE ScanAll(_, _, _, _)
ScanAll(fls, st, todoS, lastv) ==
  IF todoS = {} THEN {st}
  ELSE UNION {IF ~Yields(fls, x) THEN ScanAll(fls, st, todoS \ {x}, x)
              ELSE IF IsFile(LibFS, x) /\ LookupIn(st.db, x).found
                     THEN ScanAll(fls, Turn(st, x), todoS \ {x}, x)
                     ELSE {} :
                x \in WalkNext(todoS, lastv, LIB)}

\* the delete loop of main from st on
PruneAll(st) ==
  LET fs == [files |-> DOMAIN st.dst, dirs |-> st.dirs]
      walked == IGlob(fs, PathJoin(ORG, <<"**">>), FALSE)
                  \cup IGlob(fs, PathJoin(SHUF, <<"**">>), FALSE)
      gone == {f \in walked : IsFile(fs, f) /\ f \notin st.inc}
  IN [st EXCEPT !.dst = [f \in DOMAIN st.dst \ gone |-> st.dst[f]]]

\* what main leaves when it runs from the table and the trees of s0 to its
\* "return 0"
Outcomes(s0) ==
  LET st0 == [db |-> s0.db, dst |-> s0.dst,
              dirs |-> s0.dirs \cup Prefixes(ORG) \cup Prefixes(SHUF),
              inc |-> {}]
      ends == ScanAll(LoadFilters(LibFS, rulefile, LIB), st0,
                      IGlob(LibFS, PathJoin(LIB, <<"**">>), FALSE), <<>>)
  IN IF s0.del THEN {PruneAll(e) : e \in ends} ELSE ends

(* ------------------------------------------------------------ claims *)
\* the library paths the walk of the running run has reached
Walked == IGlob(LibFS, PathJoin(LIB, <<"**">>), FALSE) \ todo

InRun == pc \in {"scan", "prune"}

Matching(x) == {i \in 1..Len(filters) : x \in filters[i].items}

FirstMatching(x) == CHOOSE i \in Matching(x) : \A j \in Matching(x) : i <= j

\* C1: a walked path is included (yielded by gen_input_files) if and only if
\* some rule matches it and the first rule in file order that matches it is
\* not negated; a negated first match excludes it whatever the later rules
\* say, and so does no match at all.
C1_FirstMatchWins ==
  InRun =>
    \A x \in Walked :
      x \in yielded <=>
        (Matching(x) # {} /\ ~filters[FirstMatching(x)].is_negative)

\* a negated rule excluded a path that a later, non-negated rule matches
C1_Witness ==
  /\ InRun
  /\ \E x \in Walked : \E i, j \in Matching(x) :
       /\ i = FirstMatching(x) /\ i < j
       /\ filters[i].is_negative /\ ~filters[j].is_negative
       /\ x \notin yielded
  /\ \E x \in Walked : x \in yielded
  /\ \E x \in Walked : Matching(x) = {}

\* the rule list has the shape [A, !B, C]
IsABC ==
  /\ Len(filters) = 3
  /\ ~filters[1].is_negative
  /\ filters[2].is_negative
  /\ ~filters[3].is_negative

\* C2 as stated: under a rule list [A, !B, C] a path that matches both A
\* and B is excluded and produces no destination path, and a path that
\* matches only C is included.
C2_Original ==
  (InRun /\ IsABC) =>
    \A x \in Walked :
      /\ (x \in filters[1].items /\ x \in filters[2].items)
           => (x \notin yielded /\ x \notin DOMAIN destsOf)
      /\ Matching(x) = {3} => x \in yielded

\* C2 amended: under a rule list [A, !B, C] a path that matches both A and B
\* is included (A is the first rule that matches it) and its destination
\* paths are recorded; a path that matches only C is included too; a path
\* that matches B and not A is excluded.
C2_Amended ==
  (InRun /\ IsABC) =>
    \A x \in Walked :
      /\ (x \in filters[1].items /\ x \in filters[2].items)
           => (x \in yielded /\ x \in DOMAIN destsOf
               /\ destsOf[x] # {} /\ destsOf[x] \subseteq included_files)
      /\ Matching(x) = {3} => x \in yielded
      /\ (x \in filters[2].items /\ x \notin filters[1].items)
           => x \notin yielded

\* one run reached a path matching A and B, a path matching only C and a
\* path matching B and not A
C2_Witness ==
  /\ InRun
  /\ IsABC
  /\ \E x \in Walked :
       x \in filters[1].items /\ x \in filters[2].items /\ x \in DOMAIN destsOf
  /\ \E x \in Walked : Matching(x) = {3} /\ x \in yielded
  /\ \E x \in Walked : x \in filters[2].items /\ x \notin filters[1].items

\* the mode field of a rule line as the rule file format reads it: what
\* follows the tab, "both" for a line without a tab
ModeField(line) ==
  LET st == Strip(line)
      tabs == {i \in 1..Len(st) : st[i] = "\t"}
  IN IF tabs = {} THEN <<"both">>
     ELSE SubSeq(st, (CHOOSE i \in tabs : \A j \in tabs : i <= j) + 1, Len(st))

HasModeField(line) == \E i \in 1..Len(Strip(line)) : Strip(line)[i] = "\t"

OrganizedOf(x) == {o \in destsOf[x] : IsPrefix(ORG, o)}

ShuffledOf(x) == {o \in destsOf[x] : IsPrefix(SHUF, o)}

C4_Idempotent ==
  repeat =>
    /\ copies = {}
    /\ status # 1
    /\ (pc = "idle" /\ status = 0) => included_files = prev.dest

\* a repeated run has ended after recording destination paths
C4_Witness ==
  /\ repeat
  /\ pc = "idle"
  /\ status = 0
  /\ included_files # {}
  /\ Len(db) > 0

\* C5: with pruning enabled, (1) no file of the destination-path set is
\* deleted, (2) when the run ends every regular file under the two roots is
\* in the set, whatever its name or depth, and (3) no directory is deleted;
\* with pruning disabled nothing is deleted.
C5_PruneSafety ==
  /\ deleted \cap included_files = {}
  /\ (pc = "idle" /\ status = 0 /\ delete_excluded_files)
       => \A f \in DOMAIN dst : f \in included_files
  /\ deleted \cap dstDirs = {}
  /\ InitDirs \subseteq dstDirs
  /\ ~delete_excluded_files => deleted = {}

\* C6: within one run every delete step comes after the last copy/record
\* step: a file is deleted only when no walked library path is left to
\* process, after a deletion the run records no destination path and copies
\* nothing, and no deleted file is in the destination-path set.
C6_PruneAfterCopies ==
  [][ /\ deleted' \ deleted # {} => (pc = "prune" /\ todo = {})
      /\ (deleted # {} /\ runs' = runs)
           => (included_files' = included_files /\ copies' = copies
               /\ DOMAIN dst' \subseteq DOMAIN dst)
      /\ deleted' \cap included_files' = {} ]_vars

\* a run that copied files and then deleted others has ended
C6_Witness ==
  /\ pc = "idle"
  /\ status = 0
  /\ deleted # {}
  /\ copies # {}
  /\ Cardinality(yielded) > 1

\* C7: two distinct included library paths with the same content resolve,
\* within a run, to the same index record, so together they contribute one
\* organized and one shuffled destination path, and every copy to those
\* paths is made from that record's path.
C7_DedupByContent ==
  ~changed =>
    \A p, q \in DOMAIN resolved :
      (p # q /\ HexDigest(lib[p]) = HexDigest(lib[q])) =>
        /\ resolved[p] = resolved[q]
        /\ destsOf[p] = destsOf[q]
        /\ Cardinality(OrganizedOf(p) \cup OrganizedOf(q)) = 1
        /\ Cardinality(ShuffledOf(p) \cup ShuffledOf(q)) = 1
        /\ \A cp \in copies :
             cp[2] \in destsOf[p] \cup destsOf[q] => cp[1] = resolved[p].path

\* two paths with the same content were resolved in one run, and their
\* destinations were copied in that run
C7_Witness ==
  /\ ~changed
  /\ \E p, q \in DOMAIN resolved :
       /\ p # q
       /\ lib[p] = lib[q]
       /\ \A o \in destsOf[p] : \E cp \in copies : cp[2] = o

\* C8: paths P and Q have the same content and a completed run resolved
\* both to P; P is then removed (the only edit) and Q stays; the next run
\* completes without error, resolves Q to Q, and leaves no record of P.
C8_CanonicalTakeover ==
  \A p, q \in LibPaths :
    ( /\ p # q
      /\ runs = 2 /\ edits = 1 /\ pc = "idle" /\ status # Running
      /\ prev.status = 0
      /\ p \in DOMAIN prev.resolved /\ q \in DOMAIN prev.resolved
      /\ prev.resolved[p].path = p /\ prev.resolved[q].path = p
      /\ mounted /\ lib[p] = NoFile /\ lib[q] # NoFile
      /\ HexDigest(lib[q]) = prev.resolved[q].sha1 )
    => /\ status = 0
       /\ q \in DOMAIN resolved
       /\ resolved[q].path = q
       /\ \A i \in 1..Len(db) : db[i].path # p

\* k splits the file name b into <stem> and <ext>: <ext> is empty, or starts
\* at the last dot of b, which some other character precedes
IsSplit(b, k) ==
  LET ext == SubSeq(b, k + 1, Len(b))
      splittable == \E i \in 1..Len(b) : b[i] = "." /\ \E j \in 1..(i - 1) : b[j] # "."
  IN IF ext = <<>> THEN ~splittable
     ELSE /\ ext[1] = "."
          /\ \A i \in 2..Len(ext) : ext[i] # "."
          /\ \E j \in 1..k : b[j] # "."

\* shuffledRoot/"<stem> - <h8><ext>" for the file name b and the content c
ShuffledPaths(b, c) ==
  {SHUF \o << SubSeq(b, 1, k) \o <<" ", "-", " ">>
              \o SubSeq(HexDigest(c), 1, 8) \o SubSeq(b, k + 1, Len(b)) >> :
     k \in {j \in 0..Len(b) : IsSplit(b, j)}}

\* C9 as stated: the shuffled destination of an included file is
\* shuffledRoot/"<stem> - <h8><ext>" with <stem>/<ext> the parts of that
\* file's own basename and <h8> the first 8 hex digits of the hash of its
\* content.
C9_Original ==
  ~changed =>
    \A x \in DOMAIN destsOf : ShuffledOf(x) = ShuffledPaths(BaseName(x), lib[x])

\* C9 amended: the shuffled destination of an included file is
\* shuffledRoot/"<stem> - <h8><ext>" with <stem>/<ext> the parts of the
\* basename of the canonical source resolved for it and <h8> the first 8 hex
\* digits of the hash of the file's content, so the name is a function of
\* the content and of the canonical source's basename.
C9_Amended ==
  ~changed =>
    \A x \in DOMAIN destsOf :
      ShuffledOf(x) = ShuffledPaths(BaseName(resolved[x].path), lib[x])

\* a file resolved to a canonical source with another basename has its
\* shuffled destination on the drive
C9_Witness ==
  /\ ~changed
  /\ \E x \in DOMAIN destsOf :
       /\ BaseName(resolved[x].path) # BaseName(x)
       /\ ShuffledOf(x) # {}
       /\ ShuffledOf(x) \subseteq DOMAIN dst

\* C10: a run whose library root is missing never ends with exit status 0.
C10_MissingRootFatal ==
  (~mounted /\ ~changed) => status # 0

\* the fields of a rule line as the rule file format reads it
NumFields(line) ==
  1 + Cardinality({i \in 1..Len(Strip(line)) : Strip(line)[i] = "\t"})

\* more than two fields, or a mode that is none of the three
Malformed(line) ==
  \/ NumFields(line) > 2
  \/ /\ NumFields(line) = 2
     /\ ModeField(line) \notin {<<"organized">>, <<"shuffled">>, <<"both">>}

HasMalformed == \E i \in 1..Len(rulefile) : Malformed(rulefile[i])

C12_CopyFailureLocal ==
  [][ \A x \in todo :
        CopyFails(x) => (pc' = "scan" /\ status' = Running /\ x \notin todo') ]_vars

\* a blank line or a line that starts with "#"
Ignored(line) == Strip(line) = <<>> \/ Head(Strip(line)) = "#"

\* the rule file without the blank lines and the "#" lines
Effective == SelectSeq(rulefile, LAMBDA line : ~Ignored(line))

\* C13: blank lines and "#" lines contribute no rule: the paths a run
\* includes are those the rule file without these lines includes.
C13_IgnoredLines ==
  LET fls == LoadFilters(LibFS, Effective, LIB)
  IN /\ ~changed => \A x \in yielded : Yields(fls, x)
     /\ InRun => \A x \in Walked : Yields(fls, x) => x \in yielded

\* the row gen_input_rows would insert for x
OwnRow(x) == [path |-> x, sha1 |-> HexDigest(lib[x]), size |-> Size(lib[x])]

C15_AssertHolds ==
  [][ \A x \in todo : ~AssertFails(x) ]_vars

Min(S) == CHOOSE i \in S : \A j \in S : i <= j

\* C16: a lookup by hash h scans the rows with hash h in rowid order up to
\* the first whose path exists; it deletes exactly the scanned rows whose
\* path is gone and returns that first row (none if no path exists); rows
\* whose path exists, rows of other hashes and rows after the returned one
\* stay, in their order.
C16_LazyPruning ==
  call # <<>> =>
    LET before == call[1].db
        ret == call[1].ret
        H == {i \in 1..Len(before) : before[i].sha1 = call[1].sha1}
        live == {i \in H : Exists(LibFS, before[i].path)}
        scanned == IF live = {} THEN H ELSE {i \in H : i <= Min(live)}
        removed == scanned \ live
        stay == (1..Len(before)) \ removed
    IN /\ Len(db) = Cardinality(stay)
       /\ \A i \in stay :
            db[i - Cardinality({k \in removed : k < i})] = before[i]
       /\ ret.db = db
       /\ ret.found <=> live # {}
       /\ ret.found => ret.row = before[Min(live)]

\* a lookup deleted a row whose path is gone, returned a later row, and
\* left behind it a row of the same hash whose path is gone
C16_Witness ==
  /\ call # <<>>
  /\ call[1].ret.found
  /\ Len(db) < Len(call[1].db)
  /\ call[1].db[1].sha1 = call[1].sha1
  /\ ~Exists(LibFS, call[1].db[1].path)
  /\ \E i \in 1..Len(db) :
       /\ db[i].sha1 = call[1].sha1
       /\ ~Exists(LibFS, db[i].path)

\* the rule file has the line "A/**"
HasRecursiveRule ==
  \E i \in 1..Len(rulefile) : Strip(rulefile[i]) = <<"A", "/", "**">>

\* C17: under a rule "A/**" no directory is taken as a file to hash or
\* copy, whatever lies below A, and every walked regular file below A that
\* no earlier line excludes is included.
C17_RecursiveWildcard ==
  (HasRecursiveRule /\ ~changed) =>
    /\ \A x \in yielded : ~IsDir(LibFS, x)
    /\ InRun =>
         \A x \in Walked :
           ( /\ IsFile(LibFS, x)
             /\ IsPrefix(LIB \o <<nA>>, x)
             /\ \A i \in Matching(x) : ~filters[i].is_negative )
           => x \in yielded

\* C18: a run is killed at some step and, the library and the rule file
\* unchanged, run again with the same options until a run returns 0: the
\* table, the two trees and the destination set are then those that one
\* run from the same beginning, not killed, leaves.
C18_CrashRecovery ==
  (start.rerun /\ pc = "idle" /\ status = 0 /\ ~changed) =>
    [db |-> db, dst |-> dst, dirs |-> dstDirs, inc |-> included_files]
      \in Outcomes(start)

\* C19: a run with pruning enabled whose library root is missing deletes no
\* file of the two trees.
C19_FatalDestroysNothing ==
  (~mounted /\ ~changed /\ delete_excluded_files) => deleted = {}

\* C20: the row resolved for an included path p has p's content hash, and
\* the file at the row's path has that content hash too, also after edits
\* of the library between runs; every file the run copied to a shuffled
\* name holds the content whose first 8 hex digits are in the name.
C20_CanonicalMatches ==
  (InRun \/ ~changed) =>
    /\ \A x \in DOMAIN resolved :
         /\ resolved[x].sha1 = HexDigest(lib[x])
         /\ HexDigest(lib[resolved[x].path]) = resolved[x].sha1
    /\ \A cp \in copies :
         (IsPrefix(SHUF, cp[2]) /\ cp[2] \in DOMAIN dst /\ dst[cp[2]] \in Contents)
           => cp[2] \in ShuffledPaths(BaseName(cp[1]), dst[cp[2]])

====
